---- MODULE Spec2Model ----
(***************************************************************************)
(* PlanetScope lake-ice pipeline: lake/cloud masking of the red band,      *)
(* threshold classification, per-lake statistics and the two NetCDF        *)
(* time-series stores (per-lake VLEN series written by add_observation,    *)
(* contiguous ragged array written by update_lake_observation).            *)
(*                                                                         *)
(* Rasters are flattened row-major: a raster is a sequence indexed by      *)
(* pixel number.  A polygon is the set of pixels whose centre it covers.   *)
(* Percentages are exact fractions <<num, den>> in lowest terms.           *)
(***************************************************************************)
EXTENDS Integers, Sequences, FiniteSets, TLC

VARIABLES
    config,          \* the config dict of process_SR_batch.main
    img,             \* the SR image being processed (with its UDM and lake vectors)
    lake_id_raster,  \* raster written to lake_id_path
    masked_band,     \* raster written to masked_path
    classified,      \* raster written to classified_path
    pc,              \* position of the driver and of the per-image pipeline
    runs,            \* number of images loaded so far
    store,           \* the per-lake VLEN NetCDF store (lake dimension order)
    log,             \* diagnostics printed by the last calculate_lake_statistics
    rs,              \* the contiguous ragged NetCDF store of update_lake_observation
    call,            \* arguments of the last update_lake_observation call
    result,          \* what that call returned or that it raised
    vector,          \* the lake catalog at config['vector_path'] (features in file order)
    folders,         \* the SR files main finds, folder by folder
    at,              \* <<folder, file>> position of main's loops
    printed,         \* the messages printed by the driver, in order
    red_band,        \* a red band and its nodata value, given to the three classifiers
    labelled,        \* the class raster each threshold classifier made of it
    pred,            \* predict_by_chunks: its arguments, loop index and predictions
    dl               \* activate_and_download: the asset, the polls and the requests

pipevars == <<config, img, lake_id_raster, masked_band, classified, pc, runs, store, log>>
raggedvars == <<rs, call, result>>
drivervars == <<vector, folders, at, printed>>
toolvars == <<red_band, labelled, pred, dl>>

(***************************** bounds *************************************)
MaxSide == 2     \* height and width of an image given to predict_by_chunks
MaxChunk == 3    \* its chunk_size
NPix == 2        \* pixels per generated raster
MaxRuns == 2     \* images processed in one batch
MaxObs == 3      \* length of the obs dimension of the ragged store
MaxFiles == 2    \* SR files found in the input folders of one batch

(************************** program constants *****************************)
NODATA == -9999
Inf == 1000000   \* float('inf'): above every band value
MinClearPercent == 30

MaxAttempts == 30   \* max_attempts of activate_and_download

UdmBands == 1..8
SchemaClasses == {"ice", "snow", "water"}

Thresholds ==
    << [name |-> "Ice",   low |-> 950,  high |-> 3800],
       [name |-> "Snow",  low |-> 3800, high |-> Inf],
       [name |-> "Water", low |-> -Inf, high |-> 950] >>

MainConfig ==
    [ vector_path |-> "ALPOD",
      mask_bands |-> <<3, 4, 6>>,
      thresholds |-> Thresholds,
      min_clear_percent |-> MinClearPercent ]

(***************************** helpers ************************************)
RECURSIVE GCD(_, _)
GCD(a, b) == IF b = 0 THEN a ELSE GCD(b, a % b)

\* n / d as a fraction in lowest terms (d > 0, n >= 0)
Frac(n, d) == LET g == GCD(n, d) IN <<n \div g, d \div g>>

\* (cnt / tot * 100) if tot > 0 else 0
Percent(cnt, tot) == IF tot > 0 THEN Frac(cnt * 100, tot) ELSE <<0, 1>>

RECURSIVE SortedSeq(_)
SortedSeq(S) ==
    IF S = {} THEN <<>>
    ELSE LET m == CHOOSE x \in S : \A y \in S : x <= y
         IN <<m>> \o SortedSeq(S \ {m})

RECURSIVE SumSeq(_)
SumSeq(s) == IF s = <<>> THEN 0 ELSE Head(s) + SumSeq(Tail(s))

\* names of a dict's keys in a fixed order
RECURSIVE SortedNames(_)
SortedNames(S) ==
    IF S = {} THEN <<>>
    ELSE LET m == CHOOSE x \in S : TRUE
         IN <<m>> \o SortedNames(S \ {m})

StudySite == "YKD"

Lower(s) ==
    CASE s = "Ice" -> "ice"
      [] s = "Snow" -> "snow"
      [] s = "Water" -> "water"
      [] OTHER -> s

ImageTimestamp(name) == IF name.valid THEN name.stamp ELSE 0

(*************************** clip_vector_to_raster *************************)
\* tolerance = pixel_size * 10, in pixels
Tolerance == 10

\* valid_mask = np.where((band8_array & 1) == 0, 1, 0)
ValidMask(band8_array) ==
    [p \in 1..Len(band8_array) |-> IF band8_array[p] % 2 = 0 THEN 1 ELSE 0]

\* faulty variant: without a valid pixel the whole raster extent is taken
ValidPolyOrExtent(valid_mask) ==
    IF \E p \in 1..Len(valid_mask) : valid_mask[p] = 1
    THEN {p \in 1..Len(valid_mask) : valid_mask[p] = 1}
    ELSE 1..Len(valid_mask)

\* the union of the polygons of value 1; the empty set stands for None
ValidPoly(valid_mask) == {p \in 1..Len(valid_mask) : valid_mask[p] = 1}

Dist(p, q) == IF p >= q THEN p - q ELSE q - p

\* valid_poly.Simplify(tolerance) is a Douglas-Peucker simplification: the
\* vertices it drops lie within the tolerance of the simplified boundary,
\* on either side of it.  The regions it can return are the ones that differ
\* from valid_poly only within the tolerance of valid_poly's boundary
\* (pixels 0 and n + 1 are the outside of the raster).
Simplify(valid_poly, tolerance, n) ==
    {S \in SUBSET (1..n) :
        /\ \A p \in S \ valid_poly : \E q \in valid_poly : Dist(p, q) <= tolerance
        /\ \A p \in valid_poly \ S :
              \E q \in (0..(n + 1)) \ valid_poly : Dist(p, q) <= tolerance}

\* faulty variant: features that intersect the polygon are selected
SelectIntersecting(features, poly) ==
    SelectSeq(features, LAMBDA f : f.geom \cap poly # {})

\* SELECT * ... WHERE ST_Within(geometry, valid-data polygon), in file order
SelectWithin(features, poly) ==
    SelectSeq(features, LAMBDA f : f.geom \subseteq poly)

(*************************** create_mask_rasters **************************)
\* rasterio.features.rasterize: shapes are burnt in list order, a later
\* shape replaces an earlier one, fill = 0
\* faulty variant: a pixel already burnt keeps its value, the first shape wins
RECURSIVE RasterizeFirstWins(_, _)
RasterizeFirstWins(shapes, n) ==
    IF shapes = <<>> THEN [p \in 1..n |-> 0]
    ELSE LET k    == Len(shapes)
             prev == RasterizeFirstWins(SubSeq(shapes, 1, k - 1), n)
         IN [p \in 1..n |-> IF p \in shapes[k].geom /\ prev[p] = 0
                             THEN shapes[k].id ELSE prev[p]]

RECURSIVE Rasterize(_, _)
Rasterize(shapes, n) ==
    IF shapes = <<>> THEN [p \in 1..n |-> 0]
    ELSE LET k    == Len(shapes)
             prev == Rasterize(SubSeq(shapes, 1, k - 1), n)
         IN [p \in 1..n |-> IF p \in shapes[k].geom THEN shapes[k].id ELSE prev[p]]

LakeMask(lr) == [p \in 1..Len(lr) |-> IF lr[p] > 0 THEN 1 ELSE 0]

\* faulty variant: cloud_mask is assigned, not and-ed: only the last band counts
CloudMaskLastBand(udm, mask_bands, n) ==
    IF mask_bands = <<>> THEN [p \in 1..n |-> 1]
    ELSE [p \in 1..n |-> IF udm[mask_bands[Len(mask_bands)]][p] = 0 THEN 1 ELSE 0]

\* cloud_mask = ones; for band_idx in mask_bands: cloud_mask &= (udm.read(band_idx) == 0)
RECURSIVE CloudMask(_, _, _)
CloudMask(udm, mask_bands, n) ==
    IF mask_bands = <<>> THEN [p \in 1..n |-> 1]
    ELSE LET k    == Len(mask_bands)
             prev == CloudMask(udm, SubSeq(mask_bands, 1, k - 1), n)
         IN [p \in 1..n |->
               IF prev[p] = 1 /\ udm[mask_bands[k]][p] = 0 THEN 1 ELSE 0]

\* faulty variant: a pixel is kept when it is in a lake or clear
ApplyMasksOr(band_data, lake_mask, cloud_mask) ==
    [p \in 1..Len(band_data) |->
        IF lake_mask[p] # 0 \/ cloud_mask[p] # 0 THEN band_data[p] ELSE NODATA]

\* faulty variant: the cloud mask is not applied
ApplyMasksLakeOnly(band_data, lake_mask, cloud_mask) ==
    [p \in 1..Len(band_data) |->
        IF lake_mask[p] # 0 THEN band_data[p] ELSE NODATA]

ApplyMasks(band_data, lake_mask, cloud_mask) ==
    [p \in 1..Len(band_data) |->
        IF lake_mask[p] # 0 /\ cloud_mask[p] # 0 THEN band_data[p] ELSE NODATA]

(***************************** classify_pixels ****************************)
\* faulty variant: the loop over the ranges has no break, the last match wins
RECURSIVE LastMatch(_, _, _)
LastMatch(val, thresholds_list, class_idx) ==
    IF class_idx > Len(thresholds_list) THEN NODATA
    ELSE LET later == LastMatch(val, thresholds_list, class_idx + 1)
         IN IF later # NODATA THEN later
            ELSE IF thresholds_list[class_idx].low <= val
                      /\ val < thresholds_list[class_idx].high
                 THEN class_idx
                 ELSE NODATA

RECURSIVE FirstMatch(_, _, _)
FirstMatch(val, thresholds_list, class_idx) ==
    IF class_idx > Len(thresholds_list) THEN NODATA
    ELSE IF thresholds_list[class_idx].low <= val /\ val < thresholds_list[class_idx].high
         THEN class_idx
         ELSE FirstMatch(val, thresholds_list, class_idx + 1)

ClassifyPixel(val, thresholds_list) ==
    IF val # NODATA THEN FirstMatch(val, thresholds_list, 1) ELSE NODATA

ClassifyPixels(data, thresholds_list) ==
    [p \in 1..Len(data) |-> ClassifyPixel(data[p], thresholds_list)]

(********************* time_series.classify_ice_cover *********************)
\* thresholds['Ice'], thresholds['Snow'], thresholds['Water']
RangeOf(thresholds, name) ==
    thresholds[CHOOSE k \in 1..Len(thresholds) : thresholds[k].name = name]

\* three masked assignments on a raster of zeros, each replacing the last:
\* Ice on [low, high), Snow from its low bound upwards, Water on [low, high)
TimeSeriesClass(v, thresholds) ==
    LET ice   == RangeOf(thresholds, "Ice")
        snow  == RangeOf(thresholds, "Snow")
        water == RangeOf(thresholds, "Water")
        c1    == IF ice.low <= v /\ v < ice.high THEN 1 ELSE 0
        c2    == IF v >= snow.low THEN 2 ELSE c1
    IN IF water.low <= v /\ v < water.high THEN 3 ELSE c2

TimeSeriesClassify(red_data, thresholds) ==
    [p \in 1..Len(red_data) |-> TimeSeriesClass(red_data[p], thresholds)]

(******************* validate_red_threshold.classify_pixels ***************)
\* for class_name, (min_val, max_val) in thresholds.items():
\*     classification[valid_data & (red > min_val) & (red <= max_val)] = index
RECURSIVE ThresholdLoop(_, _, _, _, _)
ThresholdLoop(v, valid, thresholds, k, class) ==
    IF k > Len(thresholds) THEN class
    ELSE ThresholdLoop(v, valid, thresholds, k + 1,
                       IF valid /\ v > thresholds[k].low /\ v <= thresholds[k].high
                       THEN k ELSE class)

\* valid_data = red_band != src.nodata if src.nodata else all ones (a nodata
\* value of 0 or None is falsy); the raster starts as the default class,
\* which comes after the configured ones
ValidateClass(v, nodata, thresholds) ==
    ThresholdLoop(v, IF nodata # 0 THEN v # nodata ELSE TRUE, thresholds, 1,
                  Len(thresholds) + 1)

ValidateClassify(band, thresholds) ==
    [p \in 1..Len(band.data) |-> ValidateClass(band.data[p], band.nodata, thresholds)]

(************************** predict_by_chunks *****************************)
\* rf_model.predict on one row of X: a pixel-wise model, here the class
\* label of the pixel's feature value, stored as uint8
RfPredict(x) == (x + 1) % 256

\* X = bands.reshape(n_bands, -1).T: the pixels in row-major order
Flat(bands, height, width) ==
    [p \in 1..(height * width) |-> bands[((p - 1) \div width) + 1][((p - 1) % width) + 1]]

\* predictions.reshape(height, width)
Reshape(predictions, height, width) ==
    [r \in 1..height |-> [c \in 1..width |-> predictions[(r - 1) * width + c]]]

\* faulty variant: the chunk ends one pixel early
ChunkEndShort(i, chunk_size, total_pixels) ==
    IF i + chunk_size - 1 < total_pixels THEN i + chunk_size - 1 ELSE total_pixels

\* chunk_end = min(i + chunk_size, total_pixels)
ChunkEnd(i, chunk_size, total_pixels) ==
    IF i + chunk_size < total_pixels THEN i + chunk_size ELSE total_pixels

(****************************** add_observation ***************************)
\* faulty variant: lake_id is looked up in the last record only
LakeIndexLastOnly(st, lake_id) ==
    IF st # <<>> /\ st[Len(st)].lake_id = lake_id THEN Len(st) ELSE 0

\* index (1-based) of the first record with this lake_id, 0 if absent
LakeIndex(st, lake_id) ==
    IF \E i \in 1..Len(st) : st[i].lake_id = lake_id
    THEN CHOOSE i \in 1..Len(st) :
            /\ st[i].lake_id = lake_id
            /\ \A j \in 1..(i - 1) : st[j].lake_id # lake_id
    ELSE 0

\* faulty variant: the existing-lake branch does not append to clear_percent
ExistingLakeAppendNoClear(rec, timestamp, stats, image_name) ==
    [rec EXCEPT
        !.obs_count     = @ + 1,
        !.unix_time     = Append(@, timestamp),
        !.usable_pixels = Append(@, stats.usable_pixels),
        !.cls_pixels    = [c \in SchemaClasses |->
                              IF c \in DOMAIN stats.class_counts
                              THEN Append(@[c], stats.class_counts[c]) ELSE @[c]],
        !.cls_percent   = [c \in SchemaClasses |->
                              IF c \in DOMAIN stats.class_counts
                              THEN Append(@[c], Percent(stats.class_counts[c], stats.usable_pixels))
                              ELSE @[c]],
        !.image_names_csv = IF @ # <<>> THEN Append(@, image_name) ELSE <<image_name>>]

\* faulty variant: the existing-lake branch also adds the new total to total_pixels
ExistingLakeAppendTotal(rec, timestamp, stats, image_name) ==
    [rec EXCEPT
        !.total_pixels  = @ + stats.total_pixels,
        !.obs_count     = @ + 1,
        !.unix_time     = Append(@, timestamp),
        !.usable_pixels = Append(@, stats.usable_pixels),
        !.clear_percent = Append(@, stats.clear_percent),
        !.cls_pixels    = [c \in SchemaClasses |->
                              IF c \in DOMAIN stats.class_counts
                              THEN Append(@[c], stats.class_counts[c]) ELSE @[c]],
        !.cls_percent   = [c \in SchemaClasses |->
                              IF c \in DOMAIN stats.class_counts
                              THEN Append(@[c], Percent(stats.class_counts[c], stats.usable_pixels))
                              ELSE @[c]],
        !.image_names_csv = IF @ # <<>> THEN Append(@, image_name) ELSE <<image_name>>]

ExistingLakeAppend(rec, timestamp, stats, image_name) ==
    [rec EXCEPT
        !.obs_count     = @ + 1,
        !.unix_time     = Append(@, timestamp),
        !.usable_pixels = Append(@, stats.usable_pixels),
        !.clear_percent = Append(@, stats.clear_percent),
        !.cls_pixels    = [c \in SchemaClasses |->
                              IF c \in DOMAIN stats.class_counts
                              THEN Append(@[c], stats.class_counts[c]) ELSE @[c]],
        !.cls_percent   = [c \in SchemaClasses |->
                              IF c \in DOMAIN stats.class_counts
                              THEN Append(@[c], Percent(stats.class_counts[c], stats.usable_pixels))
                              ELSE @[c]],
        !.image_names_csv = IF @ # <<>> THEN Append(@, image_name) ELSE <<image_name>>]

NewLakeRecord(lake_id, timestamp, study_site, stats, image_name) ==
    [ lake_id       |-> lake_id,
      area          |-> stats.area,
      perimeter     |-> stats.perimeter,
      total_pixels  |-> stats.total_pixels,
      study_site    |-> study_site,
      obs_count     |-> 1,
      unix_time     |-> <<timestamp>>,
      usable_pixels |-> <<stats.usable_pixels>>,
      clear_percent |-> <<stats.clear_percent>>,
      cls_pixels    |-> [c \in SchemaClasses |->
                            IF c \in DOMAIN stats.class_counts
                            THEN <<stats.class_counts[c]>> ELSE <<>>],
      cls_percent   |-> [c \in SchemaClasses |->
                            IF c \in DOMAIN stats.class_counts
                            THEN <<Percent(stats.class_counts[c], stats.usable_pixels)>>
                            ELSE <<>>],
      image_names_csv |-> <<image_name>> ]

AddObservation(st, lake_id, timestamp, study_site, stats, image_name) ==
    LET idx == LakeIndex(st, lake_id)
    IN IF idx # 0
       THEN [st EXCEPT ![idx] = ExistingLakeAppend(@, timestamp, stats, image_name)]
       ELSE Append(st, NewLakeRecord(lake_id, timestamp, study_site, stats, image_name))

(************************* calculate_lake_statistics **********************)
\* lake_attrs: the last feature of the vector file with this id decides
LakeAttr(lakes, lid, fld) ==
    IF \E i \in 1..Len(lakes) : lakes[i].id = lid
    THEN LET i == CHOOSE k \in 1..Len(lakes) :
                     /\ lakes[k].id = lid
                     /\ \A j \in (k + 1)..Len(lakes) : lakes[j].id # lid
         IN lakes[i][fld]
    ELSE 0

\* faulty variant: class codes numbered from 0
ClassCodeZeroBased(thresholds, nm) ==
    (CHOOSE i \in 1..Len(thresholds) :
        /\ Lower(thresholds[i].name) = nm
        /\ \A j \in (i + 1)..Len(thresholds) : Lower(thresholds[j].name) # nm) - 1

\* code of a class name in code_map (a repeated name keeps its last code)
ClassCode(thresholds, nm) ==
    CHOOSE i \in 1..Len(thresholds) :
        /\ Lower(thresholds[i].name) = nm
        /\ \A j \in (i + 1)..Len(thresholds) : Lower(thresholds[j].name) # nm

\* pixels of lake lid left after dropping NoData and 0
LakeVals(lake_id_data, classified_data, lid) ==
    {p \in 1..Len(lake_id_data) :
        /\ lake_id_data[p] = lid
        /\ classified_data[p] # NODATA
        /\ classified_data[p] # 0}

ClassCounts(lake_id_data, classified_data, thresholds, lid) ==
    [nm \in {Lower(thresholds[i].name) : i \in 1..Len(thresholds)} |->
        Cardinality({p \in LakeVals(lake_id_data, classified_data, lid) :
                        classified_data[p] = ClassCode(thresholds, nm)})]

SumCounts(class_counts) ==
    SumSeq([i \in 1..Cardinality(DOMAIN class_counts) |->
              class_counts[SortedNames(DOMAIN class_counts)[i]]])

\* faulty variant: the freshly counted total is used even when the lake exists
TotalPixCounted(st, lake_id_data, lid) ==
    Cardinality({p \in 1..Len(lake_id_data) : lake_id_data[p] = lid})

\* total_pix used for lake lid: the stored total when the lake exists
TotalPix(st, lake_id_data, lid) ==
    IF LakeIndex(st, lid) # 0
    THEN st[LakeIndex(st, lid)].total_pixels
    ELSE Cardinality({p \in 1..Len(lake_id_data) : lake_id_data[p] = lid})

LakeStats(st, image, lake_id_data, classified_data, cfg, lid) ==
    LET class_counts == ClassCounts(lake_id_data, classified_data, cfg.thresholds, lid)
        usable_count == SumCounts(class_counts)
        total_pix    == TotalPix(st, lake_id_data, lid)
    IN [ area          |-> LakeAttr(image.lakes, lid, "area"),
         perimeter     |-> LakeAttr(image.lakes, lid, "perimeter"),
         total_pixels  |-> total_pix,
         usable_pixels |-> usable_count,
         clear_percent |-> Percent(usable_count, total_pix),
         class_counts  |-> class_counts ]

\* the ERROR line printed when the counted total differs from the stored one
Mismatch(st, lake_id_data, lid) ==
    LET cur == Cardinality({p \in 1..Len(lake_id_data) : lake_id_data[p] = lid})
    IN IF LakeIndex(st, lid) # 0 /\ st[LakeIndex(st, lid)].total_pixels # cur
       THEN {[lake |-> lid, current |-> cur,
              existing |-> st[LakeIndex(st, lid)].total_pixels]}
       ELSE {}

\* faulty variant: a lake without a usable pixel is skipped
RECURSIVE StatsLoopSkipsMasked(_, _, _, _, _, _, _)
StatsLoopSkipsMasked(ids, st, lg, image, lake_id_data, classified_data, cfg) ==
    IF ids = <<>> THEN [store |-> st, log |-> lg]
    ELSE LET lid   == Head(ids)
             stats == LakeStats(st, image, lake_id_data, classified_data, cfg, lid)
         IN StatsLoopSkipsMasked(Tail(ids),
                IF stats.usable_pixels = 0 THEN st
                ELSE AddObservation(st, lid, ImageTimestamp(image.name), StudySite,
                                    stats, image.name),
                lg \cup Mismatch(st, lake_id_data, lid),
                image, lake_id_data, classified_data, cfg)

\* for lid in unique_ids: ... add_observation(...)
RECURSIVE StatsLoop(_, _, _, _, _, _, _)
StatsLoop(ids, st, lg, image, lake_id_data, classified_data, cfg) ==
    IF ids = <<>> THEN [store |-> st, log |-> lg]
    ELSE LET lid == Head(ids)
         IN StatsLoop(Tail(ids),
                AddObservation(st, lid, ImageTimestamp(image.name), StudySite,
                               LakeStats(st, image, lake_id_data, classified_data, cfg, lid),
                               image.name),
                lg \cup Mismatch(st, lake_id_data, lid),
                image, lake_id_data, classified_data, cfg)

UniqueIds(lake_id_data) ==
    SortedSeq({lake_id_data[p] : p \in 1..Len(lake_id_data)} \ {0})

(***************************************************************************)
(*          update_lake_observation: the contiguous ragged store           *)
(*                                                                         *)
(* Every NetCDF variable is the array the code reads with var[:] and       *)
(* writes back; a dimension's size is the length of its longest variable   *)
(* and a string variable read past its end yields the empty string.        *)
(* lake_index and the positions computed by the code are 0-based, as in    *)
(* the code; sequences are 1-based.                                        *)
(***************************************************************************)
ObsVariables ==
    << "lake_index", "datetime", "prefix", "usable_pixels", "clear_percent",
       "ice_pixels", "ice_percent", "snow_pixels", "snow_percent",
       "water_pixels", "water_percent" >>
ObsVarSet == {ObsVariables[i] : i \in 1..Len(ObsVariables)}
RequiredFields == <<"area", "perimeter", "study_site", "total_pixels">>
\* variables of string type
StrVariables == {"prefix", "study_site"}

\* a dict argument, or None (given = FALSE)
Dict(f) == [given |-> TRUE, fields |-> f]
None == [given |-> FALSE, fields |-> <<>>]
Has(d, key) == d.given /\ key \in DOMAIN d.fields

MaxOf(S) == CHOOSE x \in S : \A y \in S : y <= x
ObsDim(r) == MaxOf({Len(r.obs[v]) : v \in ObsVarSet})
LakeDim(r) == Len(r.lake_id)

\* np.where(lake_ids == lake_id)[0]: the 0-based positions of the lake
LakePositions(r, lake_id) == {i \in 0..(LakeDim(r) - 1) : r.lake_id[i + 1] = lake_id}
MinOf(S) == CHOOSE x \in S : \A y \in S : x <= y

\* np.sum(counts[:n])
SumCounts0(counts, n) == SumSeq(SubSeq(counts, 1, IF n < Len(counts) THEN n ELSE Len(counts)))

\* a[start:end] of a Python sequence (bounds clipped)
Slice(a, start, end) ==
    LET e == IF end < Len(a) THEN end ELSE Len(a)
    IN IF start >= e THEN <<>> ELSE SubSeq(a, start + 1, e)

SeqElems(a) == {a[i] : i \in 1..Len(a)}

\* np.insert(a, pos, value), pos <= len(a)
InsertAt(a, pos, value) ==
    SubSeq(a, 1, pos) \o <<value>> \o SubSeq(a, pos + 1, Len(a))

\* a string variable seen through a dimension of size n
Pad(a, n) == [i \in 1..(IF n > Len(a) THEN n ELSE Len(a)) |-> IF i <= Len(a) THEN a[i] ELSE ""]

\* first required field missing from lake_data, "" if none
RECURSIVE FirstMissing(_, _, _)
FirstMissing(d, names, i) ==
    IF i > Len(names) THEN ""
    ELSE IF names[i] \notin DOMAIN d.fields THEN names[i]
    ELSE FirstMissing(d, names, i + 1)

\* position of a name in a list of names, Len + 1 when it is not there
PositionIn(names, nm) ==
    IF \E i \in 1..Len(names) : names[i] = nm
    THEN CHOOSE i \in 1..Len(names) : names[i] = nm
    ELSE Len(names) + 1

\* "Add the new lake to lake variables": the variables are written in the
\* order lake_id, area, perimeter, study_site, total_pixels, up to the first
\* one whose lake_data[var_name] raises; count is extended after all of them
CreateLake(r, lake_id, lake_data) ==
    LET stop == PositionIn(RequiredFields, FirstMissing(lake_data, RequiredFields, 1))
        written(f) == PositionIn(RequiredFields, f) < stop
    IN [r EXCEPT
        !.lake_id      = Append(@, lake_id),
        !.area         = IF written("area")
                         THEN Append(@, lake_data.fields["area"]) ELSE @,
        !.perimeter    = IF written("perimeter")
                         THEN Append(@, lake_data.fields["perimeter"]) ELSE @,
        !.study_site   = IF written("study_site")
                         THEN Append(Pad(@, LakeDim(r)), lake_data.fields["study_site"])
                         ELSE @,
        !.total_pixels = IF written("total_pixels")
                         THEN Append(@, lake_data.fields["total_pixels"]) ELSE @,
        !.count        = IF stop > Len(RequiredFields) THEN Append(@, 0) ELSE @]

\* faulty variant: only a missing lake_data is an error, its fields are not verified
LakeDataErrorNoneOnly(lake_exists, lake_data) ==
    ~lake_exists /\ ~lake_data.given

\* the two raise ValueError of "If lake doesn't exist, create it"
LakeDataError(lake_exists, lake_data) ==
    ~lake_exists
      /\ (~lake_data.given \/ FirstMissing(lake_data, RequiredFields, 1) # "")

\* faulty variant: the datetimes of every lake are searched
LakeDatetimesAnyLake(r, lake_idx) == r.obs["datetime"]

\* datetimes of the lake's own observation range
LakeDatetimes(r, lake_idx) ==
    LET lake_obs_start == IF lake_idx = 0 THEN 0 ELSE SumCounts0(r.count, lake_idx)
        lake_obs_end   == lake_obs_start + r.count[lake_idx + 1]
    IN Slice(r.obs["datetime"], lake_obs_start, lake_obs_end)

InsertPos(r, lake_exists, lake_idx, obs_dim) ==
    IF lake_exists
    THEN (IF lake_idx = 0 THEN 0 ELSE SumCounts0(r.count, lake_idx)) + r.count[lake_idx + 1]
    ELSE obs_dim

\* one observation variable extended by one value
ExtendVar(a, var_name, lake_exists, obs_dim, insert_pos, value) ==
    IF var_name \in StrVariables
    THEN IF lake_exists
         THEN InsertAt(Pad(a, obs_dim), insert_pos, value)
         ELSE Append(Pad(a, obs_dim), value)
    ELSE IF lake_exists
         THEN InsertAt(a, insert_pos, value)
         ELSE Append(a, value)

\* position in obs_variables of the first variable whose value cannot be
\* read from observation_data; Len + 1 when every value is there
RECURSIVE FirstFailing(_, _)
FirstFailing(observation_data, i) ==
    IF i > Len(ObsVariables) THEN i
    ELSE IF ObsVariables[i] = "lake_index" \/ Has(observation_data, ObsVariables[i])
         THEN FirstFailing(observation_data, i + 1)
         ELSE i

\* "Extend all observation variables by 1", up to the variable that raises
ExtendObs(r, lake_exists, lake_idx, obs_dim, insert_pos, observation_data) ==
    LET stop == FirstFailing(observation_data, 1)
    IN [r EXCEPT !.obs =
          [v \in ObsVarSet |->
             LET i == CHOOSE k \in 1..Len(ObsVariables) : ObsVariables[k] = v
             IN IF i < stop
                THEN ExtendVar(r.obs[v], v, lake_exists, obs_dim, insert_pos,
                               IF v = "lake_index" THEN lake_idx
                               ELSE observation_data.fields[v])
                ELSE r.obs[v]]]

Outcome(r, lake, obs, raised) == [rs |-> r, lake |-> lake, obs |-> obs, raised |-> raised]

UpdateLakeObservation(r, lake_id, lake_data, observation_data) ==
    LET lake_dim    == LakeDim(r)
        obs_dim     == ObsDim(r)
        lake_exists == LakePositions(r, lake_id) # {}
    IN IF LakeDataError(lake_exists, lake_data)
       THEN Outcome(r, "", "", TRUE)
       ELSE IF ~lake_exists /\ FirstMissing(lake_data, RequiredFields, 1) # ""
       THEN Outcome(CreateLake(r, lake_id, lake_data), "", "", TRUE)
       ELSE
       LET r1       == IF lake_exists THEN r ELSE CreateLake(r, lake_id, lake_data)
           lake_idx == IF lake_exists THEN MinOf(LakePositions(r, lake_id)) ELSE lake_dim
           lake     == IF lake_exists THEN "found" ELSE "created"
       IN IF lake_exists /\ ~Has(observation_data, "datetime")
          THEN Outcome(r1, lake, "", TRUE)
          ELSE IF lake_exists
                  /\ observation_data.fields["datetime"] \in SeqElems(LakeDatetimes(r1, lake_idx))
          THEN Outcome(r1, lake, "skipped", FALSE)
          ELSE
          LET insert_pos == InsertPos(r1, lake_exists, lake_idx, obs_dim)
              r2 == ExtendObs(r1, lake_exists, lake_idx, obs_dim, insert_pos, observation_data)
          IN IF FirstFailing(observation_data, 1) <= Len(ObsVariables)
             THEN Outcome(r2, lake, "", TRUE)
             ELSE Outcome([r2 EXCEPT !.count[lake_idx + 1] = @ + 1], lake, "added", FALSE)

(******************************* input images *****************************)
\* an SR image with its UDM companion and the lake vectors clipped to it:
\*   name   the file name split at "_" (valid: date and time parse)
\*   nodata the nodata value of the SR file's metadata
\*   band   the kept (red) band
\*   udm    the UDM bands, 0/1 per pixel
\*   lakes  the vector features in file order
MkName(stamp, tail) == [valid |-> TRUE, stamp |-> stamp, tail |-> tail]
BadName(tail) == [valid |-> FALSE, stamp |-> 0, tail |-> tail]

Lake(geom, id) == [geom |-> geom, id |-> id, area |-> 10 * id, perimeter |-> 4 * id]

\* a pixel: its red value and the UDM bands that flag it
Pixel(val, flags) == [val |-> val, flags |-> flags]

MkImage(name, nodata, pixels, lakes) ==
    [ name   |-> name,
      nodata |-> nodata,
      band   |-> [p \in 1..Len(pixels) |-> pixels[p].val],
      udm    |-> [b \in UdmBands |->
                    [p \in 1..Len(pixels) |-> IF b \in pixels[p].flags THEN 1 ELSE 0]],
      lakes  |-> lakes ]

NoImage == MkImage(BadName("none"), 0, <<>>, <<>>)

\* the images of the batch folder: pixel 1 is clear water, clear ice or
\* cloud, the other pixels clear ice or cloud; lake 1 is rasterized to a
\* different pixel total from one image to the other
BatchPixels(p) ==
    IF p = 1 THEN {Pixel(500, {}), Pixel(2000, {}), Pixel(500, {6})}
    ELSE {Pixel(2000, {}), Pixel(500, {6})}
BatchNames == {MkName(100, "a"), MkName(200, "b")}
BatchCatalogs ==
    { <<Lake(1..NPix, 1)>>,
      <<Lake({1}, 1), Lake(2..NPix, 2)>>,
      <<Lake(2..NPix, 2)>> }
BatchImages ==
    {MkImage(nm, 0, px, cat) :
        nm \in BatchNames,
        px \in {f \in [1..NPix -> UNION {BatchPixels(p) : p \in 1..NPix}] :
                   \A p \in 1..NPix : f[p] \in BatchPixels(p)},
        cat \in BatchCatalogs}

\* every raster of NPix pixels over a few red values (0 is the SR nodata
\* value) and UDM flags, with up to two lake polygons (runs of pixels)
RasterPixels == {Pixel(v, fl) : v \in {0, 500, 2000}, fl \in {{}, {3}, {6}}}
Runs == {a..b : a, b \in 1..NPix} \ {{}}
RasterCatalogs ==
    {<<>>} \cup {<<Lake(g, 1)>> : g \in Runs}
           \cup {<<Lake(g, 1), Lake(h, 2)>> : g, h \in Runs}
RasterImages ==
    {MkImage(MkName(100, "a"), 0, px, cat) :
        px \in [1..NPix -> RasterPixels], cat \in RasterCatalogs}

\* a configuration without a water class: values below 950 match no range
GapThresholds ==
    << [name |-> "Ice",   low |-> 950,  high |-> 3800],
       [name |-> "Snow",  low |-> 3800, high |-> Inf] >>
RasterConfigs ==
    {[vector_path |-> "ALPOD", mask_bands |-> mb, thresholds |-> th,
      min_clear_percent |-> MinClearPercent] :
        mb \in {<<3, 4, 6>>, <<6>>}, th \in {Thresholds, GapThresholds}}

\* SR images with their UDM band 8 (bit 0 set: no data, other bits do not
\* decide validity) before the lake catalog is clipped to them: a pixel is
\* clear ice, clear ice with another band-8 bit set, padding (no data, red
\* value 0) or cloud
ClipPixels ==
    { [val |-> 2000, flags |-> {}, b8 |-> 0],
      [val |-> 2000, flags |-> {}, b8 |-> 2],
      [val |-> 0,    flags |-> {}, b8 |-> 1],
      [val |-> 500,  flags |-> {6}, b8 |-> 0] }
MkUdmImage(name, nodata, pixels) ==
    [ name   |-> name,
      nodata |-> nodata,
      band   |-> [p \in 1..Len(pixels) |-> pixels[p].val],
      udm    |-> [b \in UdmBands |->
                    [p \in 1..Len(pixels) |->
                        IF b = 8 THEN pixels[p].b8
                        ELSE IF b \in pixels[p].flags THEN 1 ELSE 0]],
      lakes  |-> <<>> ]
ClipImages ==
    {MkUdmImage(MkName(100, "a"), 0, px) : px \in [1..NPix -> ClipPixels]}
ClipConfigs ==
    {[MainConfig EXCEPT !.mask_bands = mb] : mb \in {<<3, 4, 6>>, <<3, 4, 6, 8>>}}

\* the SR files of a batch: every file has its image; `udm` tells whether
\* the companion UDM file exists and `fault` names the step of
\* process_sr_image whose call raises for this file (a file that cannot be
\* opened, a call that cannot be made), "none" when every call returns
Faults == {"none", "clip", "mask", "classify", "stats"}
FileOptions ==
    {[udm |-> TRUE, fault |-> f] : f \in Faults} \cup {[udm |-> FALSE, fault |-> "none"]}
DriverImage(k) ==
    MkUdmImage(MkName(100 * k, "sr"), 0,
               [p \in 1..NPix |-> [val |-> 2000, flags |-> {}, b8 |-> 0]])
SrFile(k, opt) == [image |-> DriverImage(k), udm |-> opt.udm, fault |-> opt.fault]
\* two input folders holding at most MaxFiles files together
BatchFolders ==
    UNION { UNION { { << [i \in 1..n1 |-> SrFile(i, opts[i])],
                         [i \in 1..n2 |-> SrFile(n1 + i, opts[n1 + i])] >> :
                        opts \in [1..(n1 + n2) -> FileOptions] } :
                    n2 \in 0..(MaxFiles - n1) } :
            n1 \in 0..MaxFiles }
DriverCatalog == <<Lake(1..NPix, 1)>>

\* masked rasters and range lists given to classify_pixels: values at the
\* bounds of the ranges and the nodata value; ranges with a gap, and ranges
\* that overlap on [2000, 3800)
ClassifyValues == {NODATA, 0, 949, 950, 3799, 3800}
OverlapThresholds ==
    << [name |-> "Snow",  low |-> 2000, high |-> Inf],
       [name |-> "Ice",   low |-> 950,  high |-> 3800],
       [name |-> "Water", low |-> -Inf, high |-> 950] >>
ClassifyConfigs ==
    {[MainConfig EXCEPT !.thresholds = th] :
        th \in {Thresholds, GapThresholds, OverlapThresholds}}

\* Scenario A / C of the specification: a 10x10 grid, one lake on its first
\* 40 pixels of which the first `cloudy` are flagged in UDM band `cb`; two
\* thirds of the clear lake pixels hold `low`, the rest `mid`
ScenarioLake == 1..40
ScenarioPixel(p, cloudy, cb, low, mid) ==
    IF p \in ScenarioLake
    THEN IF p <= cloudy THEN Pixel(5000, {cb})
         ELSE IF p <= cloudy + ((40 - cloudy) * 2) \div 3 THEN Pixel(low, {})
         ELSE Pixel(mid, {})
    ELSE IF p > 90 THEN Pixel(5000, {cb}) ELSE Pixel(2000, {})
ScenarioImage(cloudy, cb, low, mid) ==
    MkImage(MkName(100, "a"), 0,
            [p \in 1..100 |-> ScenarioPixel(p, cloudy, cb, low, mid)],
            <<Lake(ScenarioLake, 1)>>)
ScenarioImages ==
    {ScenarioImage(cloudy, cb, low, mid) :
        cloudy \in {10, 32}, cb \in {3, 4, 6}, low \in {500, 949}, mid \in {950, 3799}}
ScenarioConfigs ==
    {[MainConfig EXCEPT !.min_clear_percent = m] : m \in {MinClearPercent, 50}}

(************************** arguments of the calls ************************)
EmptyRagged ==
    [ lake_id |-> <<>>, area |-> <<>>, perimeter |-> <<>>, study_site |-> <<>>,
      total_pixels |-> <<>>, count |-> <<>>,
      obs |-> [v \in ObsVarSet |-> <<>>] ]

NoCall == [lake_id |-> 0, lake_data |-> None, observation_data |-> None]
NoResult == [lake |-> "", obs |-> "", raised |-> FALSE]

RaggedInit ==
    /\ rs = EmptyRagged
    /\ call = NoCall
    /\ result = NoResult

\* the stand-alone scripts before any of them is called
NoBand == [data |-> <<>>, nodata |-> 0]
NoLabels == [pixels |-> <<>>, series |-> <<>>, validate |-> <<>>]
NoPrediction ==
    [bands |-> <<>>, height |-> 0, width |-> 0, chunk_size |-> 1, X |-> <<>>, i |-> 0,
     predictions |-> <<>>, written |-> <<>>, out |-> <<>>, pc |-> "idle"]
NoDownload ==
    [entry |-> "active", location |-> TRUE, status |-> "active", attempt |-> 0,
     polled_active |-> FALSE, requested |-> FALSE, pc |-> "idle"]

ToolInit ==
    /\ red_band = NoBand
    /\ labelled = NoLabels
    /\ pred = NoPrediction
    /\ dl = NoDownload

\* the driver before main has listed a folder
DriverInit ==
    /\ vector = <<>>
    /\ folders = <<>>
    /\ at = <<1, 0>>
    /\ printed = <<>>

\* faulty variant: the handler prints and raises again, out of main
PrintAndRaise(kind) ==
    /\ pc' = "stopped"
    /\ printed' = Append(printed, [file |-> img.name, error |-> kind])
    /\ UNCHANGED <<config, img, lake_id_raster, masked_band, classified, runs, store, log,
                   raggedvars, toolvars, vector, folders, at>>

RaggedLakeIds == {1, 2}

FullLakeData ==
    [f \in {"area", "perimeter", "study_site", "total_pixels"} |->
        CASE f = "area" -> 10
          [] f = "perimeter" -> 4
          [] f = "study_site" -> "YKD"
          [] f = "total_pixels" -> 2]
Without(f, key) == [v \in DOMAIN f \ {key} |-> f[v]]
LakeDataArgs ==
    {None, Dict(FullLakeData)}
       \cup {Dict(Without(FullLakeData, f)) : f \in DOMAIN FullLakeData}

FullObservation(dt) ==
    [v \in ObsVarSet \ {"lake_index"} |->
        CASE v = "datetime" -> dt
          [] v = "prefix" -> IF dt = 100 THEN "a" ELSE "b"
          [] v = "usable_pixels" -> 2
          [] v = "clear_percent" -> <<100, 1>>
          [] v = "ice_pixels" -> 1
          [] v = "ice_percent" -> <<50, 1>>
          [] v = "snow_pixels" -> 0
          [] v = "snow_percent" -> <<0, 1>>
          [] v = "water_pixels" -> 1
          [] v = "water_percent" -> <<50, 1>>]
ObservationArgs ==
    {None} \cup {Dict(FullObservation(dt)) : dt \in {100, 200}}
           \cup {Dict(Without(FullObservation(100), "usable_pixels")),
                 Dict(Without(FullObservation(100), "datetime"))}

(********************************* actions ********************************)
\* the driver picks the next SR file of the folder
LoadImage(folder) ==
    /\ pc \in {"idle", "done"}
    /\ runs < MaxRuns
    /\ \E i \in folder : img' = i
    /\ runs' = runs + 1
    /\ pc' = "loaded"
    /\ lake_id_raster' = <<>>
    /\ masked_band' = <<>>
    /\ classified' = <<>>
    /\ log' = {}
    /\ UNCHANGED <<config, store, raggedvars, toolvars, drivervars>>

LakeIdRaster(image) == Rasterize(image.lakes, Len(image.band))

MaskedBand(image, mask_bands) ==
    ApplyMasks(image.band,
               LakeMask(LakeIdRaster(image)),
               CloudMask(image.udm, mask_bands, Len(image.band)))

CreateMaskRasters ==
    /\ pc = "loaded"
    /\ lake_id_raster' = LakeIdRaster(img)
    /\ masked_band' = MaskedBand(img, config.mask_bands)
    /\ pc' = "masked"
    /\ UNCHANGED <<config, img, classified, runs, store, log, raggedvars, toolvars, drivervars>>

ClassifyIceCover ==
    /\ pc = "masked"
    /\ classified' = ClassifyPixels(masked_band, config.thresholds)
    /\ pc' = "classified"
    /\ UNCHANGED <<config, img, lake_id_raster, masked_band, runs, store, log, raggedvars, toolvars, drivervars>>

CalculateLakeStatistics ==
    /\ pc = "classified"
    /\ LET r == StatsLoop(UniqueIds(lake_id_raster), store, {}, img,
                          lake_id_raster, classified, config)
       IN /\ store' = r.store
          /\ log' = r.log
    /\ pc' = "done"
    /\ UNCHANGED <<config, img, lake_id_raster, masked_band, classified, runs, raggedvars, toolvars, drivervars>>

Init ==
    /\ config = MainConfig
    /\ img = NoImage
    /\ lake_id_raster = <<>>
    /\ masked_band = <<>>
    /\ classified = <<>>
    /\ pc = "idle"
    /\ runs = 0
    /\ store = <<>>
    /\ log = {}
    /\ RaggedInit
    /\ ToolInit
    /\ DriverInit

Next ==
    \/ LoadImage(BatchImages)
    \/ CreateMaskRasters
    \/ ClassifyIceCover
    \/ CalculateLakeStatistics

vars == <<pipevars, raggedvars, drivervars, toolvars>>

Spec == Init /\ [][Next]_vars

\* one image taken through masking, classification and statistics, over
\* every raster and configuration
InitRaster ==
    /\ config \in RasterConfigs
    /\ img \in RasterImages
    /\ lake_id_raster = <<>>
    /\ masked_band = <<>>
    /\ classified = <<>>
    /\ pc = "loaded"
    /\ runs = 1
    /\ store = <<>>
    /\ log = {}
    /\ RaggedInit
    /\ ToolInit
    /\ DriverInit

NextRaster ==
    \/ CreateMaskRasters
    \/ ClassifyIceCover
    \/ CalculateLakeStatistics

SpecRaster == InitRaster /\ [][NextRaster]_vars

\* the scenario images, processed and re-processed
InitScenario ==
    /\ config \in ScenarioConfigs
    /\ img = NoImage
    /\ lake_id_raster = <<>>
    /\ masked_band = <<>>
    /\ classified = <<>>
    /\ pc = "idle"
    /\ runs = 0
    /\ store = <<>>
    /\ log = {}
    /\ RaggedInit
    /\ ToolInit
    /\ DriverInit

NextScenario ==
    \/ LoadImage(ScenarioImages)
    \/ CreateMaskRasters
    \/ ClassifyIceCover
    \/ CalculateLakeStatistics

SpecScenario == InitScenario /\ [][NextScenario]_vars

\* except Exception as e: print(f"Error processing {sr_path}: {str(e)}");
\* process_sr_image returns and main goes on with its loop
PrintError(kind) ==
    /\ pc' = "failed"
    /\ printed' = Append(printed, [file |-> img.name, error |-> kind])
    /\ UNCHANGED <<config, img, lake_id_raster, masked_band, classified, runs, store, log,
                   raggedvars, toolvars, vector, folders, at>>

\* step 1 of process_sr_image: clip_vector_to_raster writes the clipped
\* catalog that the later steps read; without a valid pixel valid_poly is
\* None, valid_poly.Simplify raises and the driver prints the error
ClipVectorToRaster ==
    /\ pc = "found_udm"
    /\ LET valid_poly == ValidPoly(ValidMask(img.udm[8]))
       IN IF valid_poly = {}
          THEN PrintError("clip")
          ELSE /\ \E simplified_poly \in Simplify(valid_poly, Tolerance, Len(img.band)) :
                     img' = [img EXCEPT !.lakes = SelectWithin(vector, simplified_poly)]
               /\ pc' = "loaded"
               /\ UNCHANGED <<config, lake_id_raster, masked_band, classified, runs,
                              store, log, raggedvars, toolvars, drivervars>>

\* one image taken from the clip of the lake catalog to the statistics
InitClip ==
    /\ config \in ClipConfigs
    /\ img \in ClipImages
    /\ lake_id_raster = <<>>
    /\ masked_band = <<>>
    /\ classified = <<>>
    /\ pc = "found_udm"
    /\ runs = 1
    /\ store = <<>>
    /\ log = {}
    /\ RaggedInit
    /\ ToolInit
    /\ vector \in RasterCatalogs
    /\ folders = <<>>
    /\ at = <<1, 0>>
    /\ printed = <<>>

NextClip ==
    \/ ClipVectorToRaster
    \/ CreateMaskRasters
    \/ ClassifyIceCover
    \/ CalculateLakeStatistics

SpecClip == InitClip /\ [][NextClip]_vars

\* the position after `a` in main's loops over folders and files; the
\* folder index passes Len(fs) when no file is left
RECURSIVE NextAt(_, _)
NextAt(fs, a) ==
    IF a[1] > Len(fs) THEN a
    ELSE IF a[2] < Len(fs[a[1]]) THEN <<a[1], a[2] + 1>>
    ELSE NextAt(fs, <<a[1] + 1, 0>>)

CurrentFile == folders[at[1]][at[2]]

\* main: for sr_file in sr_files: process_sr_image(sr_file, config, site);
\* process_sr_image prints "Processing <base_name>..."
MainLoop ==
    /\ pc \in {"main", "done", "failed"}
    /\ LET nxt == NextAt(folders, at)
       IN /\ at' = nxt
          /\ IF nxt[1] > Len(folders)
             THEN /\ pc' = "finished"
                  /\ UNCHANGED <<img, runs, printed, lake_id_raster, masked_band,
                                 classified, log>>
             ELSE /\ pc' = "find_udm"
                  /\ img' = folders[nxt[1]][nxt[2]].image
                  /\ runs' = runs + 1
                  /\ printed' = Append(printed, [file |-> folders[nxt[1]][nxt[2]].image.name,
                                                 error |-> ""])
                  /\ lake_id_raster' = <<>>
                  /\ masked_band' = <<>>
                  /\ classified' = <<>>
                  /\ log' = {}
    /\ UNCHANGED <<config, store, raggedvars, toolvars, vector, folders>>

\* step 0: if not os.path.exists(udm_path): raise ValueError
FindUdm ==
    /\ pc = "find_udm"
    /\ IF ~CurrentFile.udm
       THEN PrintError("udm")
       ELSE /\ pc' = "found_udm"
            /\ UNCHANGED <<config, img, lake_id_raster, masked_band, classified, runs,
                           store, log, raggedvars, toolvars, drivervars>>

\* steps 1 to 4 inside the try blocks: the call returns or raises
ClipStep ==
    /\ pc = "found_udm"
    /\ IF CurrentFile.fault = "clip" THEN PrintError("clip") ELSE ClipVectorToRaster

MaskStep ==
    /\ pc = "loaded"
    /\ IF CurrentFile.fault = "mask" THEN PrintError("mask") ELSE CreateMaskRasters

ClassifyStep ==
    /\ pc = "masked"
    /\ IF CurrentFile.fault = "classify" THEN PrintError("classify") ELSE ClassifyIceCover

\* calculate_lake_statistics raises: config['vector_path'] was set to the
\* image's clipped_lakes.shp before the call, the assignment that restores
\* it is skipped and the inner handler prints the error
StatisticsRaises ==
    /\ pc' = "failed"
    /\ printed' = Append(printed, [file |-> img.name, error |-> "stats"])
    /\ config' = [config EXCEPT !.vector_path = "clipped_lakes"]
    /\ vector' = img.lakes
    /\ UNCHANGED <<img, lake_id_raster, masked_band, classified, runs, store, log,
                   raggedvars, toolvars, folders, at>>

\* step 4: the vector path is overridden for the call and restored after it
StatisticsStep ==
    /\ pc = "classified"
    /\ IF CurrentFile.fault = "stats" THEN StatisticsRaises ELSE CalculateLakeStatistics

\* a batch of main over its input folders
InitBatch ==
    /\ config = MainConfig
    /\ img = NoImage
    /\ lake_id_raster = <<>>
    /\ masked_band = <<>>
    /\ classified = <<>>
    /\ pc = "main"
    /\ runs = 0
    /\ store = <<>>
    /\ log = {}
    /\ RaggedInit
    /\ ToolInit
    /\ vector = DriverCatalog
    /\ folders \in BatchFolders
    /\ at = <<1, 0>>
    /\ printed = <<>>

NextBatch ==
    \/ MainLoop
    \/ FindUdm
    \/ ClipStep
    \/ MaskStep
    \/ ClassifyStep
    \/ StatisticsStep

SpecBatch == InitBatch /\ [][NextBatch]_vars

\* classify_ice_cover applied to a masked raster
InitClassify ==
    /\ config \in ClassifyConfigs
    /\ img = NoImage
    /\ lake_id_raster = <<>>
    /\ masked_band \in [1..NPix -> ClassifyValues]
    /\ classified = <<>>
    /\ pc = "masked"
    /\ runs = 1
    /\ store = <<>>
    /\ log = {}
    /\ RaggedInit
    /\ ToolInit
    /\ DriverInit

NextClassify == ClassifyIceCover

SpecClassify == InitClassify /\ [][NextClassify]_vars

\* one call of update_lake_observation with arguments from the given sets
UpdateCallWith(lake_datas, observation_datas) ==
    /\ ObsDim(rs) < MaxObs
    /\ \E lake_id \in RaggedLakeIds, lake_data \in lake_datas,
          observation_data \in observation_datas :
          LET out == UpdateLakeObservation(rs, lake_id, lake_data, observation_data)
          IN /\ rs' = out.rs
             /\ call' = [lake_id |-> lake_id, lake_data |-> lake_data,
                         observation_data |-> observation_data]
             /\ result' = [lake |-> out.lake, obs |-> out.obs, raised |-> out.raised]
    /\ UNCHANGED <<pipevars, drivervars, toolvars>>

UpdateCall == UpdateCallWith(LakeDataArgs, ObservationArgs)

NextRagged == UpdateCall

SpecRagged == Init /\ [][NextRagged]_vars

\* the statistics of one observation, as calculate_lake_statistics builds them
CallStats ==
    [ area |-> 10, perimeter |-> 4, total_pixels |-> 2, usable_pixels |-> 2,
      clear_percent |-> Percent(2, 2),
      class_counts |-> [c \in SchemaClasses |-> IF c = "snow" THEN 0 ELSE 1] ]

\* one call of add_observation
AddObservationCall ==
    /\ SumSeq([i \in 1..Len(store) |-> store[i].obs_count]) < MaxObs
    /\ \E lake_id \in RaggedLakeIds, name \in BatchNames :
          store' = AddObservation(store, lake_id, ImageTimestamp(name), StudySite,
                                  CallStats, name)
    /\ UNCHANGED <<config, img, lake_id_raster, masked_band, classified, pc, runs, log,
                   raggedvars, toolvars, drivervars>>

\* serialised calls of the two writers, each on its own store file
NextStores ==
    \/ AddObservationCall
    \/ UpdateCallWith({None, Dict(FullLakeData)},
                      {Dict(FullObservation(dt)) : dt \in {100, 200}})

SpecStores == Init /\ [][NextStores]_vars

\* the three threshold classifiers of the repository applied, in any order,
\* to the same red band with the thresholds every script configures
RedBands ==
    {[data |-> d, nodata |-> nd] : d \in [1..NPix -> ClassifyValues], nd \in {0, NODATA}}

InitThresholds ==
    /\ config = MainConfig
    /\ img = NoImage
    /\ lake_id_raster = <<>>
    /\ masked_band = <<>>
    /\ classified = <<>>
    /\ pc = "idle"
    /\ runs = 0
    /\ store = <<>>
    /\ log = {}
    /\ RaggedInit
    /\ DriverInit
    /\ red_band \in RedBands
    /\ labelled = NoLabels
    /\ pred = NoPrediction
    /\ dl = NoDownload

ClassifyPixelsCall ==
    /\ labelled.pixels = <<>>
    /\ labelled' = [labelled EXCEPT !.pixels = ClassifyPixels(red_band.data, Thresholds)]
    /\ UNCHANGED <<pipevars, raggedvars, drivervars, red_band, pred, dl>>

TimeSeriesCall ==
    /\ labelled.series = <<>>
    /\ labelled' = [labelled EXCEPT !.series = TimeSeriesClassify(red_band.data, Thresholds)]
    /\ UNCHANGED <<pipevars, raggedvars, drivervars, red_band, pred, dl>>

ValidateCall ==
    /\ labelled.validate = <<>>
    /\ labelled' = [labelled EXCEPT !.validate = ValidateClassify(red_band, Thresholds)]
    /\ UNCHANGED <<pipevars, raggedvars, drivervars, red_band, pred, dl>>

NextThresholds ==
    \/ ClassifyPixelsCall
    \/ TimeSeriesCall
    \/ ValidateCall

SpecThresholds == InitThresholds /\ [][NextThresholds]_vars

\* predict_by_chunks on every image of up to MaxSide x MaxSide pixels with
\* every chunk size up to MaxChunk, at the head of its loop; `written`
\* counts the assignments to each element of predictions
Features == {0, 1}
ChunkArgs ==
    UNION { { [NoPrediction EXCEPT !.bands = b, !.height = h, !.width = w,
                                   !.chunk_size = cs, !.X = Flat(b, h, w),
                                   !.predictions = [p \in 1..(h * w) |-> 0],
                                   !.written = [p \in 1..(h * w) |-> 0],
                                   !.pc = "loop"] :
                b \in [1..h -> [1..w -> Features]], cs \in 1..MaxChunk } :
            h \in 0..MaxSide, w \in 0..MaxSide }

InitChunks ==
    /\ config = MainConfig
    /\ img = NoImage
    /\ lake_id_raster = <<>>
    /\ masked_band = <<>>
    /\ classified = <<>>
    /\ pc = "idle"
    /\ runs = 0
    /\ store = <<>>
    /\ log = {}
    /\ RaggedInit
    /\ DriverInit
    /\ red_band = NoBand
    /\ labelled = NoLabels
    /\ pred \in ChunkArgs
    /\ dl = NoDownload

\* one iteration of `for i in range(0, total_pixels, chunk_size)`
PredictChunk ==
    /\ pred.pc = "loop"
    /\ pred.i < pred.height * pred.width
    /\ LET chunk_end == ChunkEnd(pred.i, pred.chunk_size, pred.height * pred.width)
           chunk     == (pred.i + 1)..chunk_end
       IN pred' = [pred EXCEPT
                     !.predictions = [p \in DOMAIN pred.predictions |->
                                         IF p \in chunk THEN RfPredict(pred.X[p])
                                         ELSE pred.predictions[p]],
                     !.written = [p \in DOMAIN pred.written |->
                                     IF p \in chunk THEN pred.written[p] + 1
                                     ELSE pred.written[p]],
                     !.i = pred.i + pred.chunk_size]
    /\ UNCHANGED <<pipevars, raggedvars, drivervars, red_band, labelled, dl>>

\* the range is exhausted: return predictions.reshape(height, width)
PredictReturn ==
    /\ pred.pc = "loop"
    /\ pred.i >= pred.height * pred.width
    /\ pred' = [pred EXCEPT !.out = Reshape(pred.predictions, pred.height, pred.width),
                            !.pc = "returned"]
    /\ UNCHANGED <<pipevars, raggedvars, drivervars, red_band, labelled, dl>>

NextChunks ==
    \/ PredictChunk
    \/ PredictReturn

SpecChunks == InitChunks /\ [][NextChunks]_vars /\ WF_vars(NextChunks)

\* activate_and_download on an asset as get_visual_product returned it:
\* `entry` is product_info['status'], `location` tells whether product_info
\* has a download link, `status` is the status the server last reported
AssetStatuses == {"inactive", "activating", "active"}
InitDownload ==
    /\ config = MainConfig
    /\ img = NoImage
    /\ lake_id_raster = <<>>
    /\ masked_band = <<>>
    /\ classified = <<>>
    /\ pc = "idle"
    /\ runs = 0
    /\ store = <<>>
    /\ log = {}
    /\ RaggedInit
    /\ DriverInit
    /\ red_band = NoBand
    /\ labelled = NoLabels
    /\ pred = NoPrediction
    /\ dl \in {[NoDownload EXCEPT !.entry = st, !.status = st, !.location = loc,
                                   !.pc = "start"] :
                  st \in AssetStatuses, loc \in BOOLEAN}

\* if product_info['status'] != 'active': post the activation request, raise
\* unless the response code is 202 or 204
Activate ==
    /\ dl.pc = "start"
    /\ IF dl.entry = "active"
       THEN dl' = [dl EXCEPT !.pc = "download"]
       ELSE \E status_code \in {202, 204, 401} :
               dl' = [dl EXCEPT !.pc = IF status_code \in {202, 204} THEN "poll"
                                       ELSE "raised"]
    /\ UNCHANGED <<pipevars, raggedvars, drivervars, red_band, labelled, pred>>

\* one turn of `while attempt < max_attempts`: the status request, then
\* break on 'active' or count the attempt and sleep; an active asset stays
\* active on the server
Poll ==
    /\ dl.pc = "poll"
    /\ dl.attempt < MaxAttempts
    /\ \E st \in AssetStatuses :
          /\ dl.status = "active" => st = "active"
          /\ dl' = IF st = "active"
                   THEN [dl EXCEPT !.status = st, !.polled_active = TRUE,
                                   !.pc = "download"]
                   ELSE [dl EXCEPT !.status = st, !.attempt = dl.attempt + 1]
    /\ UNCHANGED <<pipevars, raggedvars, drivervars, red_band, labelled, pred>>

\* the loop condition fails: the code after the loop runs
PollsExhausted ==
    /\ dl.pc = "poll"
    /\ dl.attempt >= MaxAttempts
    /\ dl' = [dl EXCEPT !.pc = "download"]
    /\ UNCHANGED <<pipevars, raggedvars, drivervars, red_band, labelled, pred>>

\* requests.get(product_info['location']): KeyError without the link;
\* otherwise the request is sent and the file written on a 200 response
Download ==
    /\ dl.pc = "download"
    /\ IF ~dl.location
       THEN dl' = [dl EXCEPT !.pc = "raised"]
       ELSE \E status_code \in {200, 404} :
               dl' = [dl EXCEPT !.requested = TRUE,
                                !.pc = IF status_code = 200 THEN "written" ELSE "raised"]
    /\ UNCHANGED <<pipevars, raggedvars, drivervars, red_band, labelled, pred>>

NextDownload ==
    \/ Activate
    \/ Poll
    \/ PollsExhausted
    \/ Download

SpecDownload == InitDownload /\ [][NextDownload]_vars

(***************************************************************************)
(*                    Properties of the per-image pipeline                 *)
(***************************************************************************)
PixelsOf(raster) == 1..Len(raster)
InSomeLake(image, p) == \E i \in 1..Len(image.lakes) : p \in image.lakes[i].geom
\* no configured mask band flags the pixel
Unflagged(image, cfg, p) ==
    \A k \in 1..Len(cfg.mask_bands) : image.udm[cfg.mask_bands[k]][p] = 0
UsablePixel(image, cfg, p) == InSomeLake(image, p) /\ Unflagged(image, cfg, p)
InSomeRange(cfg, v) ==
    \E k \in 1..Len(cfg.thresholds) :
        cfg.thresholds[k].low <= v /\ v < cfg.thresholds[k].high
\* pixels the lake-ID raster of the current image gives to lake lid
FreshPixels(lid) == {p \in PixelsOf(lake_id_raster) : lake_id_raster[p] = lid}
LakesInRaster == {lake_id_raster[p] : p \in PixelsOf(lake_id_raster)} \ {0}
Rec(lid) == store[LakeIndex(store, lid)]
Last(s) == s[Len(s)]
\* the observation the current image would add for lake lid is already the
\* lake's latest one: same timestamp, same image, identical statistics
SameAsLatest(lid) ==
    /\ LakeIndex(store, lid) # 0
    /\ Last(Rec(lid).unix_time) = ImageTimestamp(img.name)
    /\ Last(Rec(lid).image_names_csv) = img.name
    /\ Last(Rec(lid).usable_pixels)
          = Cardinality({p \in FreshPixels(lid) : classified[p] \in 1..Len(config.thresholds)})
    /\ Rec(lid).total_pixels = Cardinality(FreshPixels(lid))

\* C1: running calculate_lake_statistics again for an image whose observation
\* (same lakes, same timestamp, identical statistics) is already each lake's
\* latest one leaves the store unchanged: no series grows, no timestamp repeats.
C1_RerunIdempotent ==
    [][ ( /\ pc = "classified" /\ pc' = "done"
          /\ LakesInRaster # {}
          /\ \A lid \in LakesInRaster : SameAsLatest(lid) )
        => store' = store ]_vars

\* C3: the total_pixels of a lake record never changes once the lake is in
\* the store, and the record keeps its place and its lake_id.
C3_TotalPixelsFixed ==
    [][ \A i \in 1..Len(store) :
            /\ i <= Len(store')
            /\ store'[i].lake_id = store[i].lake_id
            /\ store'[i].total_pixels = store[i].total_pixels ]_vars

\* a second observation was appended for a lake whose stored total differs
\* from the pixel total counted in the current image
C3_Witness ==
    /\ pc = "done"
    /\ \E lid \in LakesInRaster :
          /\ Rec(lid).obs_count >= 2
          /\ Rec(lid).total_pixels # Cardinality(FreshPixels(lid))

\* C4: after calculate_lake_statistics, for every lake of the image whose
\* counted pixel total differs from the stored total_pixels, the mismatch was
\* reported and the recorded clear_percent is usable_pixels / stored total * 100
\* (0 when the stored total is 0).
C4_StoredTotalUsed ==
    pc = "done" =>
        \A lid \in LakesInRaster :
            LET rec == Rec(lid)
                cur == Cardinality(FreshPixels(lid))
                cp  == Last(rec.clear_percent)
                us  == Last(rec.usable_pixels)
            IN rec.total_pixels # cur =>
                 /\ [lake |-> lid, current |-> cur, existing |-> rec.total_pixels] \in log
                 /\ IF rec.total_pixels = 0 THEN cp = <<0, 1>>
                    ELSE cp[1] * rec.total_pixels = us * 100 * cp[2]

\* a lake with usable pixels was recorded against a stored total that differs
\* from the counted one, and the two totals give different percentages
C4_Witness ==
    /\ pc = "done"
    /\ \E lid \in LakesInRaster :
          /\ Rec(lid).total_pixels # Cardinality(FreshPixels(lid))
          /\ Last(Rec(lid).usable_pixels) > 0
          /\ log # {}

ClassSeriesSum(rec, k) ==
    SumSeq([i \in 1..Cardinality(SchemaClasses) |->
               rec.cls_pixels[SortedNames(SchemaClasses)[i]][k]])

\* C6: in every stored observation the class counts add up to usable_pixels
\* and, when usable_pixels is 0, every class percent is 0; the observation
\* just recorded for a lake has usable_pixels equal to the number of that
\* lake's pixels whose classified value is not nodata.
C6_PercentRoundTrip ==
    /\ \A i \in 1..Len(store) : \A k \in 1..store[i].obs_count :
          /\ ClassSeriesSum(store[i], k) = store[i].usable_pixels[k]
          /\ store[i].usable_pixels[k] = 0 =>
                \A c \in SchemaClasses : store[i].cls_percent[c][k] = <<0, 1>>
    /\ pc = "done" =>
          \A lid \in LakesInRaster :
              Last(Rec(lid).usable_pixels)
                 = Cardinality({p \in FreshPixels(lid) : classified[p] # NODATA})

\* a lake holds an observation without usable pixels and one whose usable
\* pixels fall into two classes
C6_Witness ==
    /\ pc = "done"
    /\ \E i \in 1..Len(store) : \E k1, k2 \in 1..store[i].obs_count :
          /\ store[i].usable_pixels[k1] = 0
          /\ store[i].cls_pixels["ice"][k2] > 0
          /\ store[i].cls_pixels["water"][k2] > 0

\* C7: an observation whose clear_percent is below config.min_clear_percent
\* has every class count 0.
C7_MinClearZeroesCounts ==
    \A i \in 1..Len(store) : \A k \in 1..store[i].obs_count :
        store[i].clear_percent[k][1] < config.min_clear_percent * store[i].clear_percent[k][2]
           => \A c \in SchemaClasses : store[i].cls_pixels[c][k] = 0

\* Scenario A, read off the input image: a 10x10 grid, one lake of 40 pixels,
\* 10 of them flagged in a configured mask band, 20 clear ones below 950 and
\* 10 clear ones in [950, 3800)
IsScenarioA(image, cfg) ==
    /\ Len(image.band) = 100
    /\ Len(image.lakes) = 1
    /\ Cardinality(image.lakes[1].geom) = 40
    /\ LET lake  == image.lakes[1].geom
           clear == {p \in lake : Unflagged(image, cfg, p)}
       IN /\ Cardinality(lake \ clear) = 10
          /\ Cardinality({p \in clear : image.band[p] < 950}) = 20
          /\ Cardinality({p \in clear : image.band[p] >= 950 /\ image.band[p] < 3800}) = 10

\* C8: the first observation recorded from a Scenario A image has
\* total_pixels 40, usable_pixels 30, clear_percent 75, water 20, ice 10, snow 0.
C8_ScenarioA ==
    (pc = "done" /\ runs = 1 /\ IsScenarioA(img, config)) =>
        /\ Len(store) = 1
        /\ store[1].lake_id = img.lakes[1].id
        /\ store[1].obs_count = 1
        /\ store[1].total_pixels = 40
        /\ store[1].usable_pixels = <<30>>
        /\ store[1].clear_percent = <<(<<75, 1>>)>>
        /\ store[1].cls_pixels["water"] = <<20>>
        /\ store[1].cls_pixels["ice"] = <<10>>
        /\ store[1].cls_pixels["snow"] = <<0>>

C8_Witness == pc = "done" /\ runs = 1 /\ IsScenarioA(img, config) /\ Len(store) = 1

\* the series of a lake record that the classes of the configuration feed
ConfigClasses == {Lower(config.thresholds[k].name) : k \in 1..Len(config.thresholds)}

\* C15: for every lake of the store the series unix_time, usable_pixels,
\* clear_percent, each configured class's pixels and percent and the list of
\* image names have the length obs_count, which is at least 1.
C15_SeriesLengthsEqualObsCount ==
    \A i \in 1..Len(store) :
        LET rec == store[i]
        IN /\ rec.obs_count >= 1
           /\ Len(rec.unix_time) = rec.obs_count
           /\ Len(rec.usable_pixels) = rec.obs_count
           /\ Len(rec.clear_percent) = rec.obs_count
           /\ Len(rec.image_names_csv) = rec.obs_count
           /\ \A c \in ConfigClasses :
                 /\ Len(rec.cls_pixels[c]) = rec.obs_count
                 /\ Len(rec.cls_percent[c]) = rec.obs_count

\* the store holds a lake just created and a lake with a second observation
C15_Witness ==
    /\ pc = "done"
    /\ \E i, j \in 1..Len(store) : store[i].obs_count = 1 /\ store[j].obs_count = 2

MatchingRanges(cfg, v) ==
    {k \in 1..Len(cfg.thresholds) :
        cfg.thresholds[k].low <= v /\ v < cfg.thresholds[k].high}

\* C19: a pixel whose masked value is -9999 stays -9999 whatever the ranges
\* are; any other pixel gets the position (from 1) of the first configured
\* range with low <= value < high, or stays -9999 when no range matches.
C19_FirstMatchingRange ==
    pc = "classified" =>
        /\ Len(classified) = Len(masked_band)
        /\ \A p \in PixelsOf(masked_band) :
              LET matches == MatchingRanges(config, masked_band[p])
              IN classified[p] =
                    IF masked_band[p] = NODATA \/ matches = {} THEN NODATA
                    ELSE CHOOSE k \in matches : \A j \in matches : k <= j

\* a raster was classified that holds a nodata pixel lying inside a
\* configured range and a pixel that two ranges contain
C19_Witness ==
    /\ pc = "classified"
    /\ \E p, q \in PixelsOf(masked_band) :
          /\ masked_band[p] = NODATA
          /\ MatchingRanges(config, NODATA) # {}
          /\ Cardinality(MatchingRanges(config, masked_band[q])) = 2
          /\ masked_band[q] # NODATA

\* C5 as stated: a pixel is nodata in the classified raster exactly when it
\* is not usable, and every usable pixel has a class code in 1..K.
C5_PartitionCoverage ==
    pc \in {"classified", "done"} =>
        \A p \in PixelsOf(classified) :
            /\ classified[p] = NODATA <=> ~UsablePixel(img, config, p)
            /\ UsablePixel(img, config, p) => classified[p] \in 1..Len(config.thresholds)

\* C5 amended: a pixel is nodata in the classified raster exactly when it is
\* not usable or no configured range contains its band value; every other
\* pixel carries one class code in 1..K, the first range containing its value.
C5_PartitionCoverageAmended ==
    pc \in {"classified", "done"} =>
        \A p \in PixelsOf(classified) :
            IF UsablePixel(img, config, p) /\ InSomeRange(config, img.band[p])
            THEN /\ classified[p] \in 1..Len(config.thresholds)
                 /\ config.thresholds[classified[p]].low <= img.band[p]
                 /\ img.band[p] < config.thresholds[classified[p]].high
                 /\ \A j \in 1..(classified[p] - 1) :
                       ~(config.thresholds[j].low <= img.band[p]
                           /\ img.band[p] < config.thresholds[j].high)
            ELSE classified[p] = NODATA

\* a classified raster with a usable pixel in a gap of the ranges and a
\* usable pixel that got a class
C5_Witness ==
    /\ pc = "classified"
    /\ \E p, q \in PixelsOf(classified) :
          /\ UsablePixel(img, config, p) /\ ~InSomeRange(config, img.band[p])
          /\ UsablePixel(img, config, q) /\ classified[q] \in 1..Len(config.thresholds)

\* C9: the masked raster keeps the band value exactly where the pixel is in
\* a lake, no configured mask band flags it and the value differs from the
\* source nodata value; it holds -9999 elsewhere.
C9_MaskedRaster ==
    pc \in {"masked", "classified", "done"} =>
        \A p \in PixelsOf(masked_band) :
            masked_band[p] =
                IF UsablePixel(img, config, p) /\ img.band[p] # img.nodata
                THEN img.band[p] ELSE NODATA

\* C10: the usable_pixels and every class count recorded for a lake count
\* only pixels inside a lake polygon that no configured mask band flags.
C10_MaskingSafety ==
    pc = "done" =>
        \A i \in 1..Len(store) :
            LET lid  == store[i].lake_id
                good == {p \in FreshPixels(lid) : UsablePixel(img, config, p)}
            IN /\ Last(store[i].usable_pixels)
                    = Cardinality({p \in good : classified[p] # NODATA})
               /\ \A k \in 1..Len(config.thresholds) :
                     Last(store[i].cls_pixels[Lower(config.thresholds[k].name)])
                        = Cardinality({p \in good : classified[p] = k})

\* statistics were recorded for a lake with a counted pixel and a pixel
\* flagged in a configured mask band
C10_Witness ==
    /\ pc = "done"
    /\ \E i \in 1..Len(store) :
          /\ Last(store[i].usable_pixels) > 0
          /\ \E p \in FreshPixels(store[i].lake_id) : ~Unflagged(img, config, p)

(***************************************************************************)
(*                  Properties of the clipped lake catalog                 *)
(***************************************************************************)
\* bit 0 of UDM band 8 is set: the pixel holds no data
NoDataBit(image, p) == image.udm[8][p] % 2 = 1
\* the image's true valid-data region
ValidRegion(image) == {p \in PixelsOf(image.band) : ~NoDataBit(image, p)}

\* C11: no pixel whose no-data bit is set is counted as usable (gets a class)
\* in the statistics recorded for a lake, whatever the mask bands are.
C11_NoDataNeverUsable ==
    pc = "done" =>
        \A i \in 1..Len(store) :
            /\ \A p \in FreshPixels(store[i].lake_id) :
                  NoDataBit(img, p) => classified[p] = NODATA
            /\ Last(store[i].usable_pixels)
                  = Cardinality({p \in FreshPixels(store[i].lake_id) :
                                    ~NoDataBit(img, p) /\ classified[p] # NODATA})

\* C17: every lake of the clipped catalog lies wholly inside the image's
\* true valid-data region.
C17_ClippedLakesInsideValidRegion ==
    pc \in {"loaded", "masked", "classified", "done"} =>
        \A i \in 1..Len(img.lakes) : img.lakes[i].geom \subseteq ValidRegion(img)

\* C20: when no pixel of the quality mask is valid the clip fails before a
\* clipped catalog is written, and the image gets no lake-ID raster, no
\* classified raster and no observation in the store.
C20_NoValidPixelIsFatal ==
    ValidRegion(img) = {} =>
        /\ pc \in {"found_udm", "failed"}
        /\ img.lakes = <<>>
        /\ lake_id_raster = <<>>
        /\ masked_band = <<>>
        /\ classified = <<>>
        /\ store = <<>>

\* the clip of an image without a valid pixel has failed and printed its
\* error, with lakes in the catalog that lie over the image
C20_Witness ==
    /\ pc = "failed"
    /\ ValidRegion(img) = {}
    /\ vector # <<>>
    /\ Len(printed) = 1

(***************************************************************************)
(*                         Properties of the driver                        *)
(***************************************************************************)
RECURSIVE Flatten(_)
Flatten(fs) == IF fs = <<>> THEN <<>> ELSE Head(fs) \o Flatten(Tail(fs))
AllFiles == Flatten(folders)
\* a call of process_sr_image for this file raises
Faulty(f) == ~f.udm \/ f.fault # "none"
\* the images process_sr_image was entered for, in order
Entered == SelectSeq(printed, LAMBDA m : m.error = "")
Errors == SelectSeq(printed, LAMBDA m : m.error # "")

\* the positions of main's loops and of process_sr_image: control is at one
\* of them as long as no exception has left main
DriverPositions ==
    {"main", "find_udm", "found_udm", "loaded", "masked", "classified", "done", "failed",
     "finished"}

\* C12: whatever step fails for whatever image, no exception leaves main;
\* the driver enters process_sr_image for the files of every folder in
\* order, and when main returns it has entered every file and printed an
\* error for exactly the files with a failing step.
C12_BadImageNeverAbortsBatch ==
    /\ pc \in DriverPositions
    /\ Len(Entered) <= Len(AllFiles)
    /\ \A k \in 1..Len(Entered) : Entered[k].file = AllFiles[k].image.name
    /\ pc = "finished" =>
          /\ Len(Entered) = Len(AllFiles)
          /\ \A k \in 1..Len(AllFiles) :
                Faulty(AllFiles[k]) <=>
                   \E j \in 1..Len(Errors) : Errors[j].file = AllFiles[k].image.name

\* main has returned after an image of the first folder failed and a later
\* image of the second folder was taken through to the store
C12_Witness ==
    /\ pc = "finished"
    /\ Len(folders[1]) > 0 /\ Faulty(folders[1][1])
    /\ Len(folders[2]) > 0 /\ ~Faulty(folders[2][Len(folders[2])])
    /\ store # <<>>

\* C13: once recording an image's statistics has failed, the batch has
\* stopped: no later image is entered and no step runs any more.
C13_StoreFailureStopsBatch ==
    (\E j \in 1..Len(printed) : printed[j].error = "stats") =>
        /\ pc = "stopped"
        /\ printed[Len(printed)].error = "stats"

(***************************************************************************)
(*                  Properties of update_lake_observation                  *)
(***************************************************************************)
Known(r, lake_id) == \E i \in 1..Len(r.lake_id) : r.lake_id[i] = lake_id
\* 0-based position of the lake among the lake-level variables
PosOf(r, lake_id) ==
    CHOOSE i \in 0..(Len(r.lake_id) - 1) :
        /\ r.lake_id[i + 1] = lake_id
        /\ \A j \in 0..(i - 1) : r.lake_id[j + 1] # lake_id
\* the datetimes stored in the observation range that count gives the lake
OwnDatetimes(r, lake_id) ==
    LET pos   == PosOf(r, lake_id)
        start == SumSeq(SubSeq(r.count, 1, pos))
    IN {r.obs["datetime"][j] :
          j \in {k \in (start + 1)..(start + r.count[pos + 1]) : k <= Len(r.obs["datetime"])}}
CompleteObservation(d) == \A v \in ObsVarSet \ {"lake_index"} : Has(d, v)
\* the call about to return asks for a datetime the lake already holds
DuplicateCall ==
    /\ Known(rs, call'.lake_id)
    /\ Has(call'.observation_data, "datetime")
    /\ call'.observation_data.fields["datetime"] \in OwnDatetimes(rs, call'.lake_id)

\* the lake_data of the call does not allow the lake to be created
IncompleteLakeData(d) == ~d.given \/ \E f \in SeqElems(RequiredFields) : ~Has(d, f)

\* C14: a call for a lake_id that is not in the store, with lake_data None or
\* lacking one of area, perimeter, study_site, total_pixels, raises and leaves
\* the store as it was.
C14_UnknownLakeWithoutDataFails ==
    [][ ( /\ call' # call \/ rs' # rs
          /\ ~Known(rs, call'.lake_id)
          /\ IncompleteLakeData(call'.lake_data) )
        => (result'.raised /\ rs' = rs) ]_vars

\* the last call raised for a lake that is not in a store holding another
\* lake with an observation, its lake_data lacking only total_pixels
C14_Witness ==
    /\ result.raised
    /\ ~Known(rs, call.lake_id)
    /\ call.lake_data.given
    /\ DOMAIN call.lake_data.fields = {"area", "perimeter", "study_site"}
    /\ call.observation_data.given
    /\ Len(rs.lake_id) = 1
    /\ rs.count = <<1>>

\* C2: update_lake_observation skips exactly when the lake exists and the
\* datetime is stored in the lake's own observation range, and then nothing
\* is written; a datetime stored only for a different lake causes no skip:
\* the observation is added to the lake's range and its count grows by one.
C2_SkipExactlyOnOwnDatetime ==
    [][ /\ (result'.obs = "skipped") <=> DuplicateCall
        /\ result'.obs = "skipped" => (rs' = rs /\ ~result'.raised)
        /\ ( /\ Known(rs, call'.lake_id)
             /\ CompleteObservation(call'.observation_data)
             /\ ~DuplicateCall
             /\ call'.observation_data.fields["datetime"] \in SeqElems(rs.obs["datetime"]) )
           => /\ result'.obs = "added"
              /\ rs'.count[PosOf(rs, call'.lake_id) + 1]
                    = rs.count[PosOf(rs, call'.lake_id) + 1] + 1
              /\ Len(rs'.obs["datetime"]) = Len(rs.obs["datetime"]) + 1
              /\ call'.observation_data.fields["datetime"] \in OwnDatetimes(rs', call'.lake_id)
      ]_vars

\* a call was skipped for a datetime that two lakes hold, each in its own
\* range: the second lake's observation was added although the first lake
\* already had that datetime
C2_Witness ==
    /\ result.obs = "skipped"
    /\ \A l \in RaggedLakeIds :
          /\ Known(rs, l)
          /\ call.observation_data.fields["datetime"] \in OwnDatetimes(rs, l)

(***************************************************************************)
(*                     Properties of the two stores' keys                  *)
(***************************************************************************)
\* no value occurs twice in a sequence
Distinct(a) == \A i, j \in 1..Len(a) : a[i] = a[j] => i = j
StoreIds(st) == [i \in 1..Len(st) |-> st[i].lake_id]

\* C16: after every call of add_observation or update_lake_observation no
\* two lake records of a store hold the same lake_id; the records keep their
\* lake_id and their place, and a call never adds more than one record.
C16_LakeIdUnique ==
    [][ /\ Distinct(StoreIds(store'))
        /\ Distinct(rs'.lake_id)
        /\ Len(store') \in {Len(store), Len(store) + 1}
        /\ SubSeq(StoreIds(store'), 1, Len(store)) = StoreIds(store)
        /\ Len(rs'.lake_id) \in {Len(rs.lake_id), Len(rs.lake_id) + 1}
        /\ SubSeq(rs'.lake_id, 1, Len(rs.lake_id)) = rs.lake_id
        /\ Known(rs, call'.lake_id) => Len(rs'.lake_id) = Len(rs.lake_id)
      ]_vars

\* each store holds two lakes, the first of them with two observations:
\* a call for a lake that was not the last one created found its record
C16_Witness ==
    /\ Len(store) = 2 /\ store[1].obs_count = 2
    /\ Len(rs.lake_id) = 2 /\ rs.count[1] = 2


(***************************************************************************)
(*                    Properties of the lake-ID raster                     *)
(***************************************************************************)
\* the catalog positions of the polygons that cover a pixel
Covering(image, p) == {k \in 1..Len(image.lakes) : p \in image.lakes[k].geom}

\* C21: the lake-ID raster has one value per pixel of the image, 0 where no
\* polygon covers the pixel and otherwise the id of the polygon that comes
\* last in the catalog among those covering it: the raster is a function of
\* the catalog order alone.
C21_RasterizationDeterministic ==
    pc \in {"masked", "classified", "done"} =>
        /\ Len(lake_id_raster) = Len(img.band)
        /\ \A p \in PixelsOf(img.band) :
              LET cov == Covering(img, p)
              IN lake_id_raster[p] =
                    IF cov = {} THEN 0
                    ELSE img.lakes[CHOOSE k \in cov : \A j \in cov : j <= k].id

\* a raster was made from a catalog in which two polygons with different ids
\* cover the same pixel, and another pixel lies in the first polygon only
C21_Witness ==
    /\ pc = "masked"
    /\ \E p, q \in PixelsOf(img.band) :
          /\ Covering(img, p) = {1, 2}
          /\ Covering(img, q) = {1}
          /\ img.lakes[1].id # img.lakes[2].id
          /\ lake_id_raster[p] # lake_id_raster[q]

(***************************************************************************)
(*                  Properties of the threshold configuration              *)
(***************************************************************************)
\* two ranges of the list share a value
Overlapping(thresholds_list) ==
    \E j, k \in 1..Len(thresholds_list) :
        /\ j < k
        /\ thresholds_list[j].low < thresholds_list[k].high
        /\ thresholds_list[k].low < thresholds_list[j].high
        /\ thresholds_list[j].low < thresholds_list[j].high
        /\ thresholds_list[k].low < thresholds_list[k].high

\* C22: with a threshold configuration whose ranges overlap or whose class
\* list is empty, classify_ice_cover never classifies a raster: the
\* configuration is rejected before any pixel gets a class.
C22_InvalidThresholdsRejected ==
    (Overlapping(config.thresholds) \/ config.thresholds = <<>>) =>
        pc # "classified"

\* C23: the three threshold classifiers give every valid pixel value the
\* same class under the shared thresholds, the bounds 950 and 3800 included:
\* each treats a range as inclusive-low / exclusive-high.
C23_ClassifiersAgree ==
    (labelled.pixels # <<>> /\ labelled.series # <<>> /\ labelled.validate # <<>>) =>
        \A p \in PixelsOf(red_band.data) :
            red_band.data[p] # NODATA =>
                /\ labelled.pixels[p] = labelled.series[p]
                /\ labelled.pixels[p] = labelled.validate[p]

(***************************************************************************)
(*                      Properties of predict_by_chunks                    *)
(***************************************************************************)
\* while the loop runs, exactly the pixels before the loop index (in
\* row-major order) have been predicted, each of them once; on return the
\* output has the input's rows and columns and holds the model's prediction
\* of each pixel
ChunksCoverInOrder ==
    /\ pred.pc \in {"loop", "returned"} =>
          \A p \in 1..(pred.height * pred.width) :
              pred.written[p] = IF p <= pred.i THEN 1 ELSE 0
    /\ pred.pc = "returned" =>
          /\ Len(pred.out) = pred.height
          /\ \A r \in 1..pred.height :
                /\ Len(pred.out[r]) = pred.width
                /\ \A c \in 1..pred.width :
                      pred.out[r][c] = RfPredict(pred.bands[r][c])

\* C24: for every image size and every chunk_size >= 1 the chunks cover
\* each pixel index exactly once and in order, the output equals the
\* pixel-wise prediction of the whole image with the input's height and
\* width, and the loop terminates.
C24_ChunkedEqualsWhole ==
    /\ []ChunksCoverInOrder
    /\ (pred.pc = "loop") ~> (pred.pc = "returned")

\* an image of several rows and columns whose pixels differ was predicted
\* in more than one chunk, the last chunk shorter than chunk_size
C24_Witness ==
    /\ pred.pc = "returned"
    /\ pred.height > 1 /\ pred.width > 1
    /\ pred.chunk_size > 1
    /\ (pred.height * pred.width) % pred.chunk_size # 0
    /\ pred.chunk_size < pred.height * pred.width
    /\ pred.out[1][2] # pred.out[2][1]

(***************************************************************************)
(*                    Properties of activate_and_download                  *)
(***************************************************************************)
\* C25: the download request is issued only after the asset's status is
\* 'active': it was active on entry or one of the at most 30 polls returned
\* 'active'; an asset that is still inactive is never downloaded.
C25_DownloadOnlyWhenActive ==
    dl.requested =>
        /\ dl.entry = "active" \/ dl.polled_active
        /\ dl.status = "active"
        /\ dl.attempt <= MaxAttempts

(***************************************************************************)
(*                  Properties of the driver's configuration               *)
(***************************************************************************)
\* C26: whenever process_sr_image has returned, also after the statistics
\* step raised, config['vector_path'] is the path given to main, and every
\* image is clipped from the original lake catalog.
C26_VectorPathRestored ==
    /\ pc \in {"main", "find_udm", "done", "failed", "finished"} =>
          config.vector_path = MainConfig.vector_path
    /\ pc = "found_udm" =>
          /\ config.vector_path = MainConfig.vector_path
          /\ vector = DriverCatalog

(***************************************************************************)
(*                    Properties of the ragged store's layout              *)
(***************************************************************************)
\* C27: after any sequence of update_lake_observation calls the counts sum
\* to the length of the obs dimension, every obs variable has that length,
\* every lake has a count, and the observations of the lake at index i are
\* the positions [sum(count[:i]), sum(count[:i+1])), where lake_index is i.
C27_ContiguousRagged ==
    /\ Len(rs.count) = LakeDim(rs)
    /\ SumSeq(rs.count) = ObsDim(rs)
    /\ \A v \in ObsVarSet : Len(rs.obs[v]) = ObsDim(rs)
    /\ \A i \in 0..(Len(rs.count) - 1) :
          \A pos \in SumCounts0(rs.count, i)..(SumCounts0(rs.count, i + 1) - 1) :
              /\ pos < Len(rs.obs["lake_index"])
              /\ rs.obs["lake_index"][pos + 1] = i

\* C29: a call of update_lake_observation that raises leaves the store
\* exactly as it was before the call.
C29_AllOrNothing ==
    [][result'.raised => rs' = rs]_vars

(***************************************************************************)
(*                  Frame of the two writers of a store                    *)
(***************************************************************************)
StaticFields == {"lake_id", "area", "perimeter", "total_pixels", "study_site"}
SeriesFields == {"unix_time", "usable_pixels", "clear_percent", "image_names_csv"}
IsExtension(old, new) == Len(new) = Len(old) + 1 /\ SubSeq(new, 1, Len(old)) = old

\* what add_observation may change between two states of the per-lake store
AddFrame(st, st2) ==
    \E L \in RaggedLakeIds :
        /\ \A i \in 1..Len(st) : st[i].lake_id # L => st2[i] = st[i]
        /\ IF LakeIndex(st, L) = 0
           THEN /\ Len(st2) = Len(st) + 1
                /\ st2[Len(st2)].lake_id = L
                /\ st2[Len(st2)].obs_count = 1
           ELSE LET idx == LakeIndex(st, L)
                IN /\ Len(st2) = Len(st)
                   /\ \A f \in StaticFields : st2[idx][f] = st[idx][f]
                   /\ st2[idx].obs_count = st[idx].obs_count + 1
                   /\ \A f \in SeriesFields : IsExtension(st[idx][f], st2[idx][f])
                   /\ \A c \in SchemaClasses :
                         /\ IsExtension(st[idx].cls_pixels[c], st2[idx].cls_pixels[c])
                         /\ IsExtension(st[idx].cls_percent[c], st2[idx].cls_percent[c])

\* the lake-level values and the observations of the lake at 0-based index i
LakeStatic(r, i) ==
    <<r.lake_id[i + 1], r.area[i + 1], r.perimeter[i + 1], r.study_site[i + 1],
      r.total_pixels[i + 1]>>
LakeObs(r, i) ==
    [v \in ObsVarSet |->
        Slice(r.obs[v], SumCounts0(r.count, i), SumCounts0(r.count, i + 1))]

\* what an update_lake_observation call for lake L that added the
\* observation o may change between two states of the ragged store
UpdateFrame(r, r2, L, o) ==
    LET new(v, i) == IF v = "lake_index" THEN i ELSE o.fields[v]
    IN /\ \A i \in 0..(LakeDim(r) - 1) :
             /\ LakeStatic(r2, i) = LakeStatic(r, i)
             /\ IF r.lake_id[i + 1] # L
                THEN r2.count[i + 1] = r.count[i + 1] /\ LakeObs(r2, i) = LakeObs(r, i)
                ELSE /\ r2.count[i + 1] = r.count[i + 1] + 1
                     /\ \A v \in ObsVarSet :
                           LakeObs(r2, i)[v] = Append(LakeObs(r, i)[v], new(v, i))
       /\ IF LakePositions(r, L) # {}
          THEN LakeDim(r2) = LakeDim(r)
          ELSE /\ LakeDim(r2) = LakeDim(r) + 1
               /\ r2.lake_id[LakeDim(r2)] = L
               /\ r2.count[LakeDim(r2)] = 1
               /\ \A v \in ObsVarSet :
                     LakeObs(r2, LakeDim(r))[v] = <<new(v, LakeDim(r))>>

\* C28: a successful add_observation or update_lake_observation for lake L
\* leaves every other lake's static attributes, count and observations
\* unchanged, leaves L's static attributes unchanged and keeps L's earlier
\* observations as a prefix of its new sequence, the new observation last.
C28_AppendOnlyFrame ==
    [][/\ store' # store => AddFrame(store, store')
       /\ (rs' # rs /\ ~result'.raised) =>
             UpdateFrame(rs, rs', call'.lake_id, call'.observation_data)]_vars

(***************************************************************************)
(*                  Bounds of the recorded observations                    *)
(***************************************************************************)
\* C30: every observation calculate_lake_statistics has recorded has
\* 0 <= usable_pixels <= total_pixels of its lake record and
\* 0 <= clear_percent <= 100, also when the stored total replaced a
\* different freshly counted one.
C30_UsableWithinTotal ==
    \A i \in 1..Len(store) :
        \A k \in 1..Len(store[i].usable_pixels) :
            /\ 0 <= store[i].usable_pixels[k]
            /\ store[i].usable_pixels[k] <= store[i].total_pixels
            /\ 0 <= store[i].clear_percent[k][1]
            /\ store[i].clear_percent[k][1] <= 100 * store[i].clear_percent[k][2]

====
